---- MODULE Spec2Model ----
(***************************************************************************)
(* A model of the e2e-test-agent orchestrator (src/TestAgent.ts) and of    *)
(* its process entry point (src/index.ts).                                 *)
(*                                                                         *)
(* Text is modelled as a sequence of one-character strings, so that the    *)
(* string operations of the source (trim, endsWith, sort, path.join,       *)
(* path.basename, template interpolation) are computed character by        *)
(* character.                                                              *)
(***************************************************************************)
EXTENDS Naturals, Integers, Sequences, FiniteSets, TLC

(***************************************************************************)
(* Bounds of the model.                                                    *)
(***************************************************************************)
\* longest test content handed to buildTestPrompt on its own
MaxLen ==
    3

\* largest number of directory entries readdir returns
MaxFiles ==
    2

\* latest instant the clock reaches, in milliseconds after its first reading
MaxTick ==
    1

\* largest number of directory entries when getTestFiles is called on its own
MaxEntries ==
    3

\* longest sequence of TestResults handed to printSummary on its own
MaxResults ==
    3

\* largest number of times printSummary is called on the same sequence
MaxCalls ==
    2

(***************************************************************************)
(* Text helpers.                                                           *)
(***************************************************************************)
\* White space as String.prototype.trim understands it (the characters of
\* it that the model's alphabets use).
IsWhiteSpace(c) ==
    c \in {" ", "\n", "\t", "\r"}

RECURSIVE TrimStart(_)
TrimStart(s) ==
    IF s = <<>> THEN <<>>
    ELSE IF IsWhiteSpace(Head(s)) THEN TrimStart(Tail(s))
    ELSE s

RECURSIVE TrimEnd(_)
TrimEnd(s) ==
    IF s = <<>> THEN <<>>
    ELSE IF IsWhiteSpace(s[Len(s)]) THEN TrimEnd(SubSeq(s, 1, Len(s) - 1))
    ELSE s

\* A trim that forgets the end of the text.
TrimLeadingOnly(s) ==
    TrimStart(s)

\* String.prototype.trim
Trim(s) ==
    TrimEnd(TrimStart(s))

\* String.prototype.endsWith
EndsWith(s, suffix) ==
    /\ Len(s) >= Len(suffix)
    /\ SubSeq(s, Len(s) - Len(suffix) + 1, Len(s)) = suffix

\* all sequences over S of length at most n
RECURSIVE SeqsUpTo(_, _)
SeqsUpTo(S, n) ==
    IF n = 0 THEN {<<>>}
    ELSE LET shorter == SeqsUpTo(S, n - 1)
         IN  shorter \cup {Append(s, c) : s \in shorter, c \in S}

(***************************************************************************)
(* The clock and Date.prototype.toISOString.  An instant is a number of    *)
(* milliseconds after the first reading of the clock; within the model's   *)
(* range only the millisecond digits of the ISO text change.               *)
(***************************************************************************)
Digit(n) ==
    CASE n = 0 -> "0" [] n = 1 -> "1" [] n = 2 -> "2" [] n = 3 -> "3" [] n = 4 -> "4"
      [] n = 5 -> "5" [] n = 6 -> "6" [] n = 7 -> "7" [] n = 8 -> "8" [] n = 9 -> "9"

\* "2026-01-01T00:00:00." : the part of the ISO text the model's instants share
IsoDatePart ==
    <<"2", "0", "2", "6", "-", "0", "1", "-", "0", "1", "T", "0", "0", ":", "0", "0", ":",
      "0", "0", ".">>

toISOString(t) ==
    IsoDatePart
      \o <<Digit((t \div 100) % 10), Digit((t \div 10) % 10), Digit(t % 10)>>
      \o <<"Z">>

(***************************************************************************)
(* buildTestPrompt: the template literal of src/TestAgent.ts:65-80.        *)
(***************************************************************************)
\* src/TestAgent.ts:65  the line break after the opening backtick
TemplateOpen ==
    <<"\n">>

\* src/TestAgent.ts:66  "Current Date/Time: " before ${currentDateTime}
TemplateDateLabel ==
    <<"C", "u", "r", "r", "e", "n", "t", " ", "D", "a", "t", "e", "/", "T", "i", "m", "e",
      ":", " ">>

\* src/TestAgent.ts:67  (empty line)
TemplateLine67 ==
    <<"\n">>

\* src/TestAgent.ts:68  'Instructions:'
TemplateLine68 ==
    <<"I", "n", "s", "t", "r", "u", "c", "t", "i", "o", "n", "s", ":", "\n">>

\* src/TestAgent.ts:69  '- Follow the test steps below carefully'
TemplateLine69 ==
    <<"-", " ", "F", "o", "l", "l", "o", "w", " ", "t", "h", "e", " ", "t", "e", "s", "t",
      " ", "s", "t", "e", "p", "s", " ", "b", "e", "l", "o", "w", " ", "c", "a", "r", "e",
      "f", "u", "l", "l", "y", "\n">>

\* src/TestAgent.ts:70  '- Return your response in JSON format with the following structure:'
TemplateLine70 ==
    <<"-", " ", "R", "e", "t", "u", "r", "n", " ", "y", "o", "u", "r", " ", "r", "e", "s",
      "p", "o", "n", "s", "e", " ", "i", "n", " ", "J", "S", "O", "N", " ", "f", "o", "r",
      "m", "a", "t", " ", "w", "i", "t", "h", " ", "t", "h", "e", " ", "f", "o", "l", "l",
      "o", "w", "i", "n", "g", " ", "s", "t", "r", "u", "c", "t", "u", "r", "e", ":", "\n">>

\* src/TestAgent.ts:71  '  {'
TemplateLine71 ==
    <<" ", " ", "{", "\n">>

\* src/TestAgent.ts:72  '    "success": boolean,'
TemplateLine72 ==
    <<" ", " ", " ", " ", "\"", "s", "u", "c", "c", "e", "s", "s", "\"", ":", " ", "b",
      "o", "o", "l", "e", "a", "n", ",", "\n">>

\* src/TestAgent.ts:73  '    "steps_completed": string[],'
TemplateLine73 ==
    <<" ", " ", " ", " ", "\"", "s", "t", "e", "p", "s", "_", "c", "o", "m", "p", "l", "e",
      "t", "e", "d", "\"", ":", " ", "s", "t", "r", "i", "n", "g", "[", "]", ",", "\n">>

\* src/TestAgent.ts:74  '    "observations": string,'
TemplateLine74 ==
    <<" ", " ", " ", " ", "\"", "o", "b", "s", "e", "r", "v", "a", "t", "i", "o", "n", "s",
      "\"", ":", " ", "s", "t", "r", "i", "n", "g", ",", "\n">>

\* src/TestAgent.ts:75  '    "final_status": string'
TemplateLine75 ==
    <<" ", " ", " ", " ", "\"", "f", "i", "n", "a", "l", "_", "s", "t", "a", "t", "u", "s",
      "\"", ":", " ", "s", "t", "r", "i", "n", "g", "\n">>

\* src/TestAgent.ts:76  '  }'
TemplateLine76 ==
    <<" ", " ", "}", "\n">>

\* src/TestAgent.ts:77  (empty line)
TemplateLine77 ==
    <<"\n">>

\* src/TestAgent.ts:78  'Test Steps:'
TemplateLine78 ==
    <<"T", "e", "s", "t", " ", "S", "t", "e", "p", "s", ":", "\n">>

\* src/TestAgent.ts:66  the line break after ${currentDateTime}
TemplateDateEnd ==
    <<"\n">>

\* src/TestAgent.ts:79-80  the line break between ${testContent} and the closing backtick
TemplateClose ==
    <<"\n">>

TemplateInstructions ==
    TemplateLine67 \o TemplateLine68 \o TemplateLine69 \o TemplateLine70 \o TemplateLine71
      \o TemplateLine72 \o TemplateLine73 \o TemplateLine74 \o TemplateLine75
      \o TemplateLine76 \o TemplateLine77 \o TemplateLine78

\* the template literal with both interpolations filled in, before .trim()
TemplateText(currentDateTime, testContent) ==
    TemplateOpen \o TemplateDateLabel \o currentDateTime \o TemplateDateEnd
      \o TemplateInstructions \o testContent \o TemplateClose

\* buildTestPrompt(testContent), with the reading of the clock made explicit
buildTestPrompt(testContent, now) ==
    Trim(TemplateText(toISOString(now), testContent))

(***************************************************************************)
(* Completions of a call: it returns a value or throws (rejects with) one. *)
(***************************************************************************)
Return(v) ==
    [type |-> "return", value |-> v]

Throw(e) ==
    [type |-> "throw", value |-> e]

(***************************************************************************)
(* File names and paths.                                                   *)
(***************************************************************************)
\* UTF-16 code units of the characters file names are made of in the model
CodeUnit(c) ==
    CASE c = "." -> 46 [] c = "/" -> 47 [] c = "0" -> 48 [] c = "1" -> 49 [] c = "2" -> 50
      [] c = "B" -> 66 [] c = "a" -> 97 [] c = "b" -> 98 [] c = "c" -> 99 [] c = "e" -> 101
      [] c = "k" -> 107 [] c = "s" -> 115 [] c = "t" -> 116 [] c = "x" -> 120

\* x < y on strings: the order Array.prototype.sort() uses without a comparator
RECURSIVE StringLess(_, _)
StringLess(x, y) ==
    IF y = <<>> THEN FALSE
    ELSE IF x = <<>> THEN TRUE
    ELSE IF Head(x) = Head(y) THEN StringLess(Tail(x), Tail(y))
    ELSE CodeUnit(Head(x)) < CodeUnit(Head(y))

\* x put into the sorted list after every element that is not greater (stable)
RECURSIVE InsertSorted(_, _)
InsertSorted(sorted, x) ==
    IF sorted = <<>> THEN <<x>>
    ELSE IF StringLess(x, Head(sorted)) THEN <<x>> \o sorted
    ELSE <<Head(sorted)>> \o InsertSorted(Tail(sorted), x)

\* The array left as readdir gave it: the .sort() call forgotten.
UnsortedStrings(list) ==
    list

\* Array.prototype.sort() on an array of strings
RECURSIVE SortStrings(_)
SortStrings(list) ==
    IF list = <<>> THEN <<>>
    ELSE InsertSorted(SortStrings(SubSeq(list, 1, Len(list) - 1)), list[Len(list)])

\* the segments of a path between its "/" separators
RECURSIVE SplitPath(_)
SplitPath(p) ==
    IF p = <<>> THEN <<<<>>>>
    ELSE IF Head(p) = "/" THEN <<<<>>>> \o SplitPath(Tail(p))
    ELSE [SplitPath(Tail(p)) EXCEPT ![1] = <<Head(p)>> \o @]

DotDot ==
    <<".", ".">>

\* path.posix normalizeString: drops "" and "." segments and resolves ".."
RECURSIVE NormalizeSegments(_, _, _)
NormalizeSegments(segs, acc, isAbsolute) ==
    IF segs = <<>> THEN acc
    ELSE LET s == Head(segs)
         IN  IF s = <<>> \/ s = <<".">>
             THEN NormalizeSegments(Tail(segs), acc, isAbsolute)
             ELSE IF s = DotDot
             THEN IF acc # <<>> /\ acc[Len(acc)] # DotDot
                  THEN NormalizeSegments(Tail(segs), SubSeq(acc, 1, Len(acc) - 1), isAbsolute)
                  ELSE IF isAbsolute
                  THEN NormalizeSegments(Tail(segs), acc, isAbsolute)
                  ELSE NormalizeSegments(Tail(segs), Append(acc, s), isAbsolute)
             ELSE NormalizeSegments(Tail(segs), Append(acc, s), isAbsolute)

RECURSIVE JoinSegments(_)
JoinSegments(segs) ==
    IF segs = <<>> THEN <<>>
    ELSE IF Len(segs) = 1 THEN Head(segs)
    ELSE Head(segs) \o <<"/">> \o JoinSegments(Tail(segs))

\* path.posix.normalize
NormalizePath(p) ==
    IF p = <<>> THEN <<".">>
    ELSE LET isAbsolute == Head(p) = "/"
             trailing   == p[Len(p)] = "/"
             body       == JoinSegments(NormalizeSegments(SplitPath(p), <<>>, isAbsolute))
             shown      == IF body = <<>> /\ ~isAbsolute THEN <<".">>
                           ELSE IF body # <<>> /\ trailing THEN body \o <<"/">>
                           ELSE body
         IN  IF isAbsolute THEN <<"/">> \o shown ELSE shown

\* path.join(dir, file)
PathJoin(dir, file) ==
    IF dir = <<>> /\ file = <<>> THEN <<".">>
    ELSE IF dir = <<>> THEN NormalizePath(file)
    ELSE IF file = <<>> THEN NormalizePath(dir)
    ELSE NormalizePath(dir \o <<"/">> \o file)

RECURSIVE StripTrailingSlashes(_)
StripTrailingSlashes(p) ==
    IF p # <<>> /\ p[Len(p)] = "/" THEN StripTrailingSlashes(SubSeq(p, 1, Len(p) - 1))
    ELSE p

\* path.basename(p)
Basename(p) ==
    LET segs == SplitPath(StripTrailingSlashes(p))
    IN  segs[Len(segs)]

\* the extension of a test file, src/TestAgent.ts:54
TestExtension ==
    <<".", "t", "e", "s", "t">>

\* (file) => file.endsWith(".test")
IsTestFile(file) ==
    EndsWith(file, TestExtension)

\* files.filter((file) => file.endsWith(".test"))
RECURSIVE FilterTestFiles(_)
FilterTestFiles(list) ==
    IF list = <<>> THEN <<>>
    ELSE IF IsTestFile(Head(list)) THEN <<Head(list)>> \o FilterTestFiles(Tail(list))
    ELSE FilterTestFiles(Tail(list))

\* A getTestFiles that swallows the failure of readdir and lists nothing.
GetTestFilesSwallows(dir, readdir) ==
    Return(<<>>)

\* getTestFiles, given how fs.readdir(this.testsDir) completed
getTestFiles(dir, readdir) ==
    IF readdir.type = "throw" THEN Throw(readdir.value)
    ELSE LET files  == readdir.value
             sorted == SortStrings(FilterTestFiles(files))
         IN  Return([k \in 1..Len(sorted) |-> PathJoin(dir, sorted[k])])

(***************************************************************************)
(* Values: what the gateway returns, what a failing call throws.           *)
(***************************************************************************)
\* an object carrying the response shape the prompt asks for: {success: s, ...}
ObjectValue(s) ==
    [type |-> "object", success |-> s]

TextValue(text) ==
    [type |-> "string", text |-> text]

NullValue ==
    [type |-> "null"]

UndefinedValue ==
    [type |-> "undefined"]

\* new Error(message)
ErrorObject(message) ==
    [type |-> "Error", message |-> message]

\* the promise of a call that has not settled
PendingPromise ==
    [type |-> "promise"]

\* String(v)
StringOf(v) ==
    CASE v.type = "string" -> v.text
      [] v.type = "undefined" -> <<"u", "n", "d", "e", "f", "i", "n", "e", "d">>
      [] v.type = "null" -> <<"n", "u", "l", "l">>
      [] v.type = "object" ->
           <<"[", "o", "b", "j", "e", "c", "t", " ", "O", "b", "j", "e", "c", "t", "]">>
      [] v.type = "promise" ->
           <<"[", "o", "b", "j", "e", "c", "t", " ", "P", "r", "o", "m", "i", "s", "e", "]">>
      [] v.type = "Error" -> <<"E", "r", "r", "o", "r", ":", " ">> \o v.message

\* the error fs.readFile rejects with when the file is gone
ReadFileError(path) ==
    ErrorObject(
      <<"E", "N", "O", "E", "N", "T", ":", " ", "n", "o", " ", "s", "u", "c", "h", " ", "f",
        "i", "l", "e", " ", "o", "r", " ", "d", "i", "r", "e", "c", "t", "o", "r", "y", ",",
        " ", "o", "p", "e", "n", " ", "'">> \o path \o <<"'">>)

\* the error fs.readdir rejects with when the directory is missing
ReaddirError(dir) ==
    ErrorObject(
      <<"E", "N", "O", "E", "N", "T", ":", " ", "n", "o", " ", "s", "u", "c", "h", " ", "f",
        "i", "l", "e", " ", "o", "r", " ", "d", "i", "r", "e", "c", "t", "o", "r", "y", ",",
        " ", "s", "c", "a", "n", "d", "i", "r", " ", "'">> \o dir \o <<"'">>)

(***************************************************************************)
(* runSingleTest: the two return statements.                               *)
(***************************************************************************)
\* A return that takes the success flag from the gateway's result.
SuccessFromResult(testFile, testNumber, testContent, result) ==
    Return([testFile   |-> Basename(testFile),
            testNumber |-> testNumber,
            prompt     |-> testContent,
            result     |-> result,
            success    |-> IF result.type = "object" THEN result.success ELSE TRUE])

\* A return that stores the prompt sent to the gateway in the place of the content.
SuccessWithBuiltPrompt(testFile, testNumber, testContent, result) ==
    Return([testFile   |-> Basename(testFile),
            testNumber |-> testNumber,
            prompt     |-> buildTestPrompt(testContent, 0),
            result     |-> result,
            success    |-> TRUE])

\* the return of the try block, src/TestAgent.ts:100-106
SuccessResult(testFile, testNumber, testContent, result) ==
    Return([testFile   |-> Basename(testFile),
            testNumber |-> testNumber,
            prompt     |-> testContent,
            result     |-> result,
            success    |-> TRUE])

\* error instanceof Error ? error.message : String(error)
ErrorMessage(error) ==
    IF error.type = "Error" THEN error.message ELSE StringOf(error)

\* A catch block that handles Error objects only and rethrows everything else.
CatchRethrowsNonError(testFile, testNumber, error) ==
    IF error.type = "Error"
    THEN Return([testFile   |-> Basename(testFile),
                 testNumber |-> testNumber,
                 prompt     |-> <<>>,
                 result     |-> NullValue,
                 success    |-> FALSE,
                 error      |-> error.message])
    ELSE Throw(error)

\* the catch block, src/TestAgent.ts:107-117
CatchResult(testFile, testNumber, error) ==
    Return([testFile   |-> Basename(testFile),
            testNumber |-> testNumber,
            prompt     |-> <<>>,
            result     |-> NullValue,
            success    |-> FALSE,
            error      |-> ErrorMessage(error)])

\* A read placed before the try block: its failure leaves runSingleTest as it is.
ReadOutsideTry(testFile, testNumber, error) ==
    Throw(error)

\* `await this.readTestContent(testFile)` stands inside the try block,
\* src/TestAgent.ts:91-92: its failure is handled by the catch block
OnReadFailure(testFile, testNumber, error) ==
    CatchResult(testFile, testNumber, error)

(***************************************************************************)
(* printSummary: the lines it writes to the console.                       *)
(***************************************************************************)
\* the width of the rules of "=" signs
RuleWidth ==
    60

RECURSIVE Repeat(_, _)
Repeat(c, n) ==
    IF n = 0 THEN <<>> ELSE <<c>> \o Repeat(c, n - 1)

\* a number in a template literal: its decimal digits
RECURSIVE Decimal(_)
Decimal(n) ==
    IF n < 10 THEN <<Digit(n)>> ELSE Decimal(n \div 10) \o <<Digit(n % 10)>>

\* the glyphs U+2705 and U+274C, each one character of the status text
PassedStatus ==
    <<"U+2705", " ", "P", "A", "S", "S", "E", "D">>

FailedStatus ==
    <<"U+274C", " ", "F", "A", "I", "L", "E", "D">>

\* r.success as a condition: the field is there and is true
IsPassed(r) ==
    "success" \in DOMAIN r /\ r.success = TRUE

\* ${r.testNumber} and ${r.testFile}: a field that is not there reads "undefined"
NumberText(r) ==
    IF "testNumber" \in DOMAIN r THEN Decimal(r.testNumber) ELSE StringOf(UndefinedValue)

FileText(r) ==
    IF "testFile" \in DOMAIN r THEN r.testFile ELSE StringOf(UndefinedValue)

\* `${status} - Test #${r.testNumber}: ${r.testFile}`
StatusLine(r) ==
    (IF IsPassed(r) THEN PassedStatus ELSE FailedStatus)
      \o <<" ", "-", " ", "T", "e", "s", "t", " ", "#">> \o NumberText(r)
      \o <<":", " ">> \o FileText(r)

\* `  Error: ${r.error}`
ErrorLine(error) ==
    <<" ", " ", "E", "r", "r", "o", "r", ":", " ">> \o error

\* if (r.error): the field is there and is not the empty string
HasError(r) ==
    "error" \in DOMAIN r /\ r.error # <<>>

\* the body of results.forEach, src/TestAgent.ts:142-148
ResultLines(r) ==
    IF HasError(r) THEN <<StatusLine(r), ErrorLine(r.error)>> ELSE <<StatusLine(r)>>

RECURSIVE ForEachLines(_)
ForEachLines(rs) ==
    IF rs = <<>> THEN <<>> ELSE ResultLines(Head(rs)) \o ForEachLines(Tail(rs))

\* A count of the results that carry no error message, in the place of those that passed.
CountWithoutError(rs) ==
    Len(rs) - Len(SelectSeq(rs, HasError))

\* results.filter((r) => r.success).length
RECURSIVE CountPassed(_)
CountPassed(rs) ==
    IF rs = <<>> THEN 0
    ELSE (IF IsPassed(Head(rs)) THEN 1 ELSE 0) + CountPassed(Tail(rs))

\* `\nTotal: ${results.length} | Passed: ${passed} | Failed: ${results.length - passed}`
TallyLine(rs) ==
    LET passed == CountPassed(rs)
    IN  <<"\n", "T", "o", "t", "a", "l", ":", " ">> \o Decimal(Len(rs))
          \o <<" ", "|", " ", "P", "a", "s", "s", "e", "d", ":", " ">> \o Decimal(passed)
          \o <<" ", "|", " ", "F", "a", "i", "l", "e", "d", ":", " ">>
          \o Decimal(Len(rs) - passed)

SummaryHeader ==
    << <<"\n">> \o Repeat("=", RuleWidth),
       <<"T", "E", "S", "T", " ", "S", "U", "M", "M", "A", "R", "Y">>,
       Repeat("=", RuleWidth) >>

\* printSummary(results): the console lines, in order
printSummary(rs) ==
    SummaryHeader \o ForEachLines(rs) \o <<TallyLine(rs)>>

(***************************************************************************)
(* The environment: what the file system and the gateway may answer.       *)
(***************************************************************************)
\* this.testsDir when config.testsDir is not set, src/TestAgent.ts:29
DefaultTestsDir ==
    <<".", "/", "t", "e", "s", "t", "s">>

\* the entries a tests directory may hold during a run
DirNames ==
    { <<"b", ".", "t", "e", "s", "t">>,
      <<"a", ".", "t", "e", "s", "t">>,
      <<"1", "0", ".", "t", "e", "s", "t">>,
      <<"a", ".", "t", "x", "t">> }

\* the entries a tests directory may hold when getTestFiles is called on its own
DirNamesWide ==
    DirNames \cup
    { <<"2", ".", "t", "e", "s", "t">>,
      <<"B", ".", "t", "e", "s", "t">>,
      <<"t", "e", "s", "t">>,
      <<"a", ".", "t", "e", "s", "t", ".", "b", "a", "k">> }

\* the tests directories getTestFiles is called with on its own
TestsDirs ==
    { DefaultTestsDir, <<"e", "2", "e", "/">> }

\* the sequences of at most n distinct elements of S: one readdir answer each
RECURSIVE Listings(_, _)
Listings(S, n) ==
    IF n = 0 THEN {<<>>}
    ELSE LET shorter == Listings(S, n - 1)
         IN  shorter \cup
             {Append(l, x) : <<l, x>> \in
                {<<l, x>> \in shorter \X S : \A k \in 1..Len(l) : l[k] # x}}

\* what a test file may hold
FileContents ==
    { <<>>, <<"g", "o", "\n">> }

\* the characters of the test contents buildTestPrompt is called with on its own
ContentAlphabet ==
    {"a", " ", "\n"}

\* what agent.run may resolve with
GatewayValues ==
    { ObjectValue(FALSE), TextValue(<<"o", "k">>), NullValue }

\* what agent.run may reject with
GatewayErrors ==
    { ErrorObject(<<"b", "o", "o", "m">>), ErrorObject(<<>>),
      TextValue(<<>>), ObjectValue(FALSE), UndefinedValue }

(***************************************************************************)
(* State.                                                                  *)
(***************************************************************************)
VARIABLES
    pc,            \* where main / runAllTests stand
    testsDir,      \* this.testsDir
    testFiles,     \* runAllTests: const testFiles
    i,             \* runAllTests: the loop index
    results,       \* runAllTests: const results
    frames,        \* one activation of runSingleTest per listed file
    clock,         \* the last reading of the clock
    fileReads,     \* the fs.readFile calls made, with how each settled
    gatewayCalls,  \* the agent.run calls made, with how each settled
    rejection,     \* what main().catch received, if anything
    summaryOut,    \* the console lines printSummary wrote
    call,          \* a method called on its own: its argument and its return
    exitStatus     \* the exit status of the process, once it has ended

vars ==
    <<pc, testsDir, testFiles, i, results, frames, clock, fileReads, gatewayCalls,
      rejection, summaryOut, call, exitStatus>>

NoCompletion ==
    [type |-> "none"]

NoCall ==
    [op |-> "none"]

\* the exit status of a process that has not ended
NotExited ==
    [ended |-> FALSE]

\* the exit status of a process that has ended with the given code
Exited(code) ==
    [ended |-> TRUE, code |-> code]

\* an activation of runSingleTest that has not been called yet
PendingFrame ==
    [state |-> "Pending", testFile |-> <<>>, testNumber |-> 0, testContent |-> <<>>,
     prompt |-> <<>>, completion |-> NoCompletion]

\* the state after `new TestAgent(config)`, src/index.ts:7-13
Init ==
    /\ pc = "main"
    /\ testsDir = DefaultTestsDir
    /\ testFiles = <<>>
    /\ i = 0
    /\ results = <<>>
    /\ frames = <<>>
    /\ clock = 0
    /\ fileReads = <<>>
    /\ gatewayCalls = <<>>
    /\ rejection = NoCompletion
    /\ summaryOut = <<>>
    /\ call = NoCall
    /\ exitStatus = NotExited

(***************************************************************************)
(* main and runAllTests.                                                   *)
(***************************************************************************)
\* src/index.ts:15 calls runAllTests, which calls getTestFiles, which awaits fs.readdir
Main ==
    /\ pc = "main"
    /\ pc' = "readdir"
    /\ UNCHANGED <<testsDir, testFiles, i, results, frames, clock, fileReads,
                   gatewayCalls, rejection, summaryOut, call, exitStatus>>

\* runAllTests after getTestFiles completed with c, src/TestAgent.ts:121-128;
\* a rejection passes through runAllTests and main to main().catch(console.error)
AfterGetTestFiles(c) ==
    IF c.type = "throw"
    THEN /\ pc' = "caught"
         /\ rejection' = c
         /\ UNCHANGED <<testFiles, i, results, frames>>
    ELSE /\ pc' = "loop"
         /\ testFiles' = c.value
         /\ i' = 0
         /\ results' = <<>>
         /\ frames' = [n \in 1..Len(c.value) |-> PendingFrame]
         /\ UNCHANGED rejection

ReaddirReturns ==
    /\ pc = "readdir"
    /\ \E files \in Listings(DirNames, MaxFiles) :
         AfterGetTestFiles(getTestFiles(testsDir, Return(files)))
    /\ UNCHANGED <<testsDir, clock, fileReads, gatewayCalls, summaryOut, call, exitStatus>>

ReaddirFails ==
    /\ pc = "readdir"
    /\ AfterGetTestFiles(getTestFiles(testsDir, Throw(ReaddirError(testsDir))))
    /\ UNCHANGED <<testsDir, clock, fileReads, gatewayCalls, summaryOut, call, exitStatus>>

\* An ordinal that counts from zero.
OrdinalZeroBased(index) ==
    index

\* the ordinal runAllTests hands to runSingleTest, src/TestAgent.ts:130
Ordinal(index) ==
    index + 1

\* for (...; i < testFiles.length; ...) entered: runSingleTest(testFiles[i], i + 1) is
\* called and runs up to its first await, the fs.readFile of src/TestAgent.ts:60
LoopCall ==
    /\ pc = "loop"
    /\ i < Len(testFiles)
    /\ frames' = [frames EXCEPT ![i + 1] =
                    [@ EXCEPT !.state = "Reading",
                              !.testFile = testFiles[i + 1],
                              !.testNumber = Ordinal(i)]]
    /\ fileReads' = Append(fileReads,
                      [frame |-> i + 1, path |-> testFiles[i + 1], outcome |-> NoCompletion])
    /\ pc' = "await"
    /\ UNCHANGED <<testsDir, testFiles, i, results, clock, gatewayCalls, rejection,
                   summaryOut, call, exitStatus>>

\* the loop condition fails: runAllTests returns results and main goes on to line 16
LoopExit ==
    /\ pc = "loop"
    /\ i >= Len(testFiles)
    /\ pc' = "printSummary"
    /\ UNCHANGED <<testsDir, testFiles, i, results, frames, clock, fileReads,
                   gatewayCalls, rejection, summaryOut, call, exitStatus>>

\* A loop that does not wait: the await forgotten.
NoAwait(n) ==
    TRUE

\* `await this.runSingleTest(...)`: the loop goes on once the activation has settled
AwaitSettled(n) ==
    frames[n].completion # NoCompletion

\* what the await expression evaluates to
Awaited(n) ==
    IF frames[n].completion = NoCompletion THEN Return(PendingPromise)
    ELSE frames[n].completion

\* An unshift in the place of the push: the new result put in front.
Unshifted(rs, r) ==
    <<r>> \o rs

\* results.push(result), src/TestAgent.ts:131
Pushed(rs, r) ==
    Append(rs, r)

\* results.push(result); i++  (or the rejection of runSingleTest passing through)
LoopResume ==
    /\ pc = "await"
    /\ AwaitSettled(i + 1)
    /\ LET c == Awaited(i + 1)
       IN  IF c.type = "throw"
           THEN /\ pc' = "caught"
                /\ rejection' = c
                /\ UNCHANGED <<results, i>>
           ELSE /\ results' = Pushed(results, c.value)
                /\ i' = i + 1
                /\ pc' = "loop"
                /\ UNCHANGED rejection
    /\ UNCHANGED <<testsDir, testFiles, frames, clock, fileReads, gatewayCalls,
                   summaryOut, call, exitStatus>>

\* src/index.ts:16, after which main returns
PrintSummary ==
    /\ pc = "printSummary"
    /\ summaryOut' = printSummary(results)
    /\ pc' = "exit"
    /\ UNCHANGED <<testsDir, testFiles, i, results, frames, clock, fileReads,
                   gatewayCalls, rejection, call, exitStatus>>

\* the exit status of a process that ends without process.exit() having been called
\* and without process.exitCode having been set
DefaultExitStatus ==
    0

\* main has returned, or main().catch(console.error) has logged the rejection,
\* src/index.ts:19: nothing is left to run and the process ends
ProcessExit ==
    /\ pc \in {"exit", "caught"}
    /\ exitStatus = NotExited
    /\ exitStatus' = Exited(DefaultExitStatus)
    /\ UNCHANGED <<pc, testsDir, testFiles, i, results, frames, clock, fileReads,
                   gatewayCalls, rejection, summaryOut, call>>

(***************************************************************************)
(* runSingleTest, one activation per listed file.                          *)
(***************************************************************************)
\* the log with the outcome of frame n's unsettled entry filled in
Settle(log, n, outcome) ==
    [k \in 1..Len(log) |->
       IF log[k].frame = n /\ log[k].outcome = NoCompletion
       THEN [log[k] EXCEPT !.outcome = outcome]
       ELSE log[k]]

\* An activation that is run again from the read when it failed.
FinishWithRetry(n, c) ==
    frames' = [frames EXCEPT ![n] =
                 IF c.type = "return" /\ c.value.success
                 THEN [@ EXCEPT !.state = "Succeeded", !.completion = c]
                 ELSE [@ EXCEPT !.state = "Reading"]]

\* the activation ends with completion c
Finish(n, c) ==
    frames' = [frames EXCEPT ![n] =
                 [@ EXCEPT !.state = IF c.type = "throw" THEN "Threw"
                                     ELSE IF c.value.success THEN "Succeeded"
                                     ELSE "Failed",
                           !.completion = c]]

\* fs.readFile resolves: src/TestAgent.ts:92-93
ReadFileReturns(n) ==
    /\ frames[n].state = "Reading"
    /\ \E content \in FileContents :
         /\ frames' = [frames EXCEPT ![n] =
                         [@ EXCEPT !.state = "Prompting", !.testContent = content]]
         /\ fileReads' = Settle(fileReads, n, Return(content))
    /\ UNCHANGED <<pc, testsDir, testFiles, i, results, clock, gatewayCalls, rejection,
                   summaryOut, call, exitStatus>>

\* fs.readFile rejects: the catch block builds the result
ReadFileFails(n) ==
    /\ frames[n].state = "Reading"
    /\ LET error == ReadFileError(frames[n].testFile)
       IN  /\ Finish(n, OnReadFailure(frames[n].testFile, frames[n].testNumber, error))
           /\ fileReads' = Settle(fileReads, n, Throw(error))
    /\ UNCHANGED <<pc, testsDir, testFiles, i, results, clock, gatewayCalls, rejection,
                   summaryOut, call, exitStatus>>

\* src/TestAgent.ts:95-96: the prompt is built at the clock's reading and agent.run
\* is called with it
BuildPrompt(n) ==
    /\ frames[n].state = "Prompting"
    /\ \E now \in clock..MaxTick :
         LET prompt == buildTestPrompt(frames[n].testContent, now)
         IN  /\ clock' = now
             /\ frames' = [frames EXCEPT ![n] =
                             [@ EXCEPT !.state = "Executing", !.prompt = prompt]]
             /\ gatewayCalls' = Append(gatewayCalls,
                                  [frame |-> n, prompt |-> prompt, outcome |-> NoCompletion])
    /\ UNCHANGED <<pc, testsDir, testFiles, i, results, fileReads, rejection,
                   summaryOut, call, exitStatus>>

\* agent.run resolves: src/TestAgent.ts:96-106
AgentRunReturns(n) ==
    /\ frames[n].state = "Executing"
    /\ \E result \in GatewayValues :
         /\ Finish(n, SuccessResult(frames[n].testFile, frames[n].testNumber,
                                    frames[n].testContent, result))
         /\ gatewayCalls' = Settle(gatewayCalls, n, Return(result))
    /\ UNCHANGED <<pc, testsDir, testFiles, i, results, clock, fileReads, rejection,
                   summaryOut, call, exitStatus>>

\* agent.run rejects: the catch block builds the result
AgentRunFails(n) ==
    /\ frames[n].state = "Executing"
    /\ \E error \in GatewayErrors :
         /\ Finish(n, CatchResult(frames[n].testFile, frames[n].testNumber, error))
         /\ gatewayCalls' = Settle(gatewayCalls, n, Throw(error))
    /\ UNCHANGED <<pc, testsDir, testFiles, i, results, clock, fileReads, rejection,
                   summaryOut, call, exitStatus>>

Next ==
    \/ Main
    \/ ReaddirReturns
    \/ ReaddirFails
    \/ LoopCall
    \/ LoopExit
    \/ LoopResume
    \/ PrintSummary
    \/ ProcessExit
    \/ \E n \in DOMAIN frames : ReadFileReturns(n)
    \/ \E n \in DOMAIN frames : ReadFileFails(n)
    \/ \E n \in DOMAIN frames : BuildPrompt(n)
    \/ \E n \in DOMAIN frames : AgentRunReturns(n)
    \/ \E n \in DOMAIN frames : AgentRunFails(n)

Spec ==
    Init /\ [][Next]_vars

\* the steps the program takes by itself: the event loop runs a continuation that is
\* ready
ProgramSteps ==
    \/ Main
    \/ LoopCall
    \/ LoopExit
    \/ LoopResume
    \/ PrintSummary
    \/ ProcessExit
    \/ \E n \in DOMAIN frames : BuildPrompt(n)

\* the steps of the environment: fs.readdir, fs.readFile or agent.run settles
Settles ==
    \/ ReaddirReturns
    \/ ReaddirFails
    \/ \E n \in DOMAIN frames : ReadFileReturns(n)
    \/ \E n \in DOMAIN frames : ReadFileFails(n)
    \/ \E n \in DOMAIN frames : AgentRunReturns(n)
    \/ \E n \in DOMAIN frames : AgentRunFails(n)

\* the runs in which every ready continuation is run and every call to the file system
\* and to the gateway settles in the end
SpecLive ==
    Spec /\ WF_vars(ProgramSteps) /\ WF_vars(Settles)

(***************************************************************************)
(* buildTestPrompt called on its own.                                      *)
(***************************************************************************)
InitPrompt ==
    /\ pc = "idle"
    /\ testsDir = DefaultTestsDir
    /\ testFiles = <<>>
    /\ i = 0
    /\ results = <<>>
    /\ frames = <<>>
    /\ clock \in 0..MaxTick
    /\ fileReads = <<>>
    /\ gatewayCalls = <<>>
    /\ rejection = NoCompletion
    /\ summaryOut = <<>>
    /\ call \in {[op |-> "buildTestPrompt", arg |-> c, returned |-> FALSE, value |-> <<>>] :
                   c \in SeqsUpTo(ContentAlphabet, MaxLen)}
    /\ exitStatus = NotExited

CallBuildTestPrompt ==
    /\ call.op = "buildTestPrompt"
    /\ ~call.returned
    /\ call' = [call EXCEPT !.returned = TRUE, !.value = buildTestPrompt(call.arg, clock)]
    /\ UNCHANGED <<pc, testsDir, testFiles, i, results, frames, clock, fileReads,
                   gatewayCalls, rejection, summaryOut, exitStatus>>

NextPrompt ==
    CallBuildTestPrompt

SpecPrompt ==
    InitPrompt /\ [][NextPrompt]_vars

(***************************************************************************)
(* getTestFiles called on its own.                                         *)
(***************************************************************************)
InitFiles ==
    /\ pc = "idle"
    /\ testsDir \in TestsDirs
    /\ testFiles = <<>>
    /\ i = 0
    /\ results = <<>>
    /\ frames = <<>>
    /\ clock = 0
    /\ fileReads = <<>>
    /\ gatewayCalls = <<>>
    /\ rejection = NoCompletion
    /\ summaryOut = <<>>
    /\ call \in {[op |-> "getTestFiles", arg |-> l, returned |-> FALSE, value |-> NoCompletion] :
                   l \in Listings(DirNamesWide, MaxEntries)}
    /\ exitStatus = NotExited

CallGetTestFiles ==
    /\ call.op = "getTestFiles"
    /\ ~call.returned
    /\ call' = [call EXCEPT !.returned = TRUE,
                            !.value = getTestFiles(testsDir, Return(call.arg))]
    /\ UNCHANGED <<pc, testsDir, testFiles, i, results, frames, clock, fileReads,
                   gatewayCalls, rejection, summaryOut, exitStatus>>

NextFiles ==
    CallGetTestFiles

SpecFiles ==
    InitFiles /\ [][NextFiles]_vars

(***************************************************************************)
(* printSummary called on its own.                                         *)
(***************************************************************************)
\* the TestResults a caller may hand to printSummary
ResultSamples ==
    { SuccessResult(<<"t", "/", "a", ".", "t", "e", "s", "t">>, 1, <<"g", "o", "\n">>,
                    TextValue(<<"o", "k">>)).value,
      SuccessResult(<<"t", "/", "b", ".", "t", "e", "s", "t">>, 12, <<>>,
                    ObjectValue(FALSE)).value,
      CatchResult(<<"t", "/", "b", ".", "t", "e", "s", "t">>, 2,
                  ErrorObject(<<"b", "o", "o", "m">>)).value,
      CatchResult(<<"t", "/", "c", ".", "t", "e", "s", "t">>, 3, ErrorObject(<<>>)).value }

\* A printSummary that reverses the array in place to show the last result first.
ResultsReversed(rs) ==
    [k \in 1..Len(rs) |-> rs[Len(rs) + 1 - k]]

\* the array after printSummary(results): forEach and filter only read it and no
\* element is assigned to, src/TestAgent.ts:142-150
ResultsAfterSummary(rs) ==
    rs

InitSummary ==
    /\ pc = "idle"
    /\ testsDir = DefaultTestsDir
    /\ testFiles = <<>>
    /\ i = 0
    /\ results = <<>>
    /\ frames = <<>>
    /\ clock = 0
    /\ fileReads = <<>>
    /\ gatewayCalls = <<>>
    /\ rejection = NoCompletion
    /\ summaryOut = <<>>
    /\ call \in {[op |-> "printSummary", given |-> rs, arg |-> rs, outputs |-> <<>>] :
                   rs \in SeqsUpTo(ResultSamples, MaxResults)}
    /\ exitStatus = NotExited

\* printSummary(results) called on the array the caller holds
CallPrintSummary ==
    /\ call.op = "printSummary"
    /\ Len(call.outputs) < MaxCalls
    /\ LET lines == printSummary(call.arg)
       IN  /\ call' = [call EXCEPT !.outputs = Append(@, lines),
                                   !.arg = ResultsAfterSummary(call.arg)]
           /\ summaryOut' = summaryOut \o lines
    /\ UNCHANGED <<pc, testsDir, testFiles, i, results, frames, clock, fileReads,
                   gatewayCalls, rejection, exitStatus>>

NextSummary ==
    CallPrintSummary

SpecSummary ==
    InitSummary /\ [][NextSummary]_vars

(***************************************************************************)
(* Properties.                                                             *)
(***************************************************************************)
\* how the fs.readFile of activation n settled, if it was made and has settled
ReadOutcomes(n) ==
    {fileReads[k].outcome : k \in {j \in 1..Len(fileReads) : fileReads[j].frame = n}}

\* how the agent.run of activation n settled, if it was made and has settled
CallOutcomes(n) ==
    {gatewayCalls[k].outcome : k \in {j \in 1..Len(gatewayCalls) : gatewayCalls[j].frame = n}}

ReadThrew(n) ==
    \E o \in ReadOutcomes(n) : o.type = "throw"

ReadReturned(n) ==
    \E o \in ReadOutcomes(n) : o.type = "return"

CallThrew(n) ==
    \E o \in CallOutcomes(n) : o.type = "throw"

CallReturned(n) ==
    \E o \in CallOutcomes(n) : o.type = "return"

\* runAllTests has returned its results to main
RunReturned ==
    pc \in {"printSummary", "exit"}

\* the shape of a failed TestResult
IsFailedResult(r) ==
    /\ r.success = FALSE
    /\ r.result = NullValue
    /\ "error" \in DOMAIN r

C2_PositionalResults ==
    /\ RunReturned =>
         /\ Len(results) = Len(testFiles)
         /\ \A k \in 1..Len(results) :
              /\ results[k].testNumber = k
              /\ results[k].testFile = Basename(testFiles[k])
         /\ (\A k \in 1..Len(testFiles) : ReadReturned(k) /\ CallReturned(k)) =>
              \A k \in 1..Len(results) :
                results[k].success = TRUE /\ "error" \notin DOMAIN results[k]
    /\ pc = "caught" => fileReads = <<>> /\ frames = <<>>

\* C2 witness: a run over two distinct files returned one failure and one success.
C2_Witness ==
    /\ RunReturned
    /\ Len(results) = 2
    /\ results[1].testFile # results[2].testFile
    /\ results[1].success = FALSE
    /\ results[2].success = TRUE

\* C3 (as stated): when all reads succeed, runAllTests returns K results of which
\* exactly those whose gateway call raised have success = false, each with a non-empty
\* error message, and the others have success = true.
C3_FailedHaveNonEmptyError ==
    (RunReturned /\ \A k \in 1..Len(testFiles) : ReadReturned(k)) =>
      /\ Len(results) = Len(testFiles)
      /\ \A k \in 1..Len(results) :
           /\ CallThrew(k) <=> results[k].success = FALSE
           /\ CallThrew(k) => ("error" \in DOMAIN results[k] /\ results[k].error # <<>>)

\* C4: a listed file that cannot be read when its turn comes gets a TestResult with
\* success = false and a non-empty error; the run goes on: every file listed after it
\* is read, is executed when its read succeeds, and succeeds when its gateway call
\* succeeds.
C4_ReadFailureIsolated ==
    /\ \A n \in DOMAIN frames :
         ReadThrew(n) =>
           /\ frames[n].completion.type = "return"
           /\ IsFailedResult(frames[n].completion.value)
           /\ frames[n].completion.value.error # <<>>
           /\ pc # "caught"
    /\ RunReturned =>
         /\ Len(results) = Len(testFiles)
         /\ \A k \in 1..Len(testFiles) :
              /\ ReadThrew(k) \/ ReadReturned(k)
              /\ ReadThrew(k) => (results[k].success = FALSE /\ results[k].error # <<>>)
              /\ ReadReturned(k) => (CallThrew(k) \/ CallReturned(k))
              /\ (ReadReturned(k) /\ CallReturned(k)) => results[k].success = TRUE

\* C4 witness: the first file could not be read and the second one, read and executed
\* after it, succeeded.
C4_Witness ==
    /\ RunReturned
    /\ Len(results) = 2
    /\ ReadThrew(1)
    /\ results[1].success = FALSE
    /\ ReadReturned(2) /\ CallReturned(2)
    /\ results[2].success = TRUE

\* C5: when listing the tests directory fails, runAllTests rejects with that failure:
\* the caller receives the error of readdir, no TestResult is produced, no file is
\* read and the gateway is never invoked.
C5_ListingFailurePropagates ==
    /\ [][ReaddirFails =>
            (pc' = "caught" /\ rejection' = Throw(ReaddirError(testsDir)))]_vars
    /\ [](pc = "caught" =>
            /\ rejection = Throw(ReaddirError(testsDir))
            /\ results = <<>>
            /\ frames = <<>>
            /\ fileReads = <<>>
            /\ gatewayCalls = <<>>
            /\ summaryOut = <<>>)

\* C5 witness: the run ended with the rejection of readdir in the caller's hands.
C5_Witness ==
    /\ pc = "caught"
    /\ rejection = Throw(ReaddirError(testsDir))
    /\ results = <<>>

\* the activations between their call and their completion
Running ==
    {n \in DOMAIN frames : frames[n].state \in {"Reading", "Prompting", "Executing"}}

\* the gateway invocations in flight
InFlight ==
    {k \in 1..Len(gatewayCalls) : gatewayCalls[k].outcome = NoCompletion}

\* C6: tests run strictly one at a time in listed order: test n is not started (no
\* read, no gateway call) before the results of tests 1..n-1 have been appended, and
\* at most one activation and at most one gateway invocation are in flight.
C6_OneAtATime ==
    /\ Cardinality(Running) <= 1
    /\ Cardinality(InFlight) <= 1
    /\ \A n \in DOMAIN frames :
         frames[n].state # "Pending" =>
           /\ Len(results) >= n - 1
           /\ \A m \in 1..(n - 1) :
                /\ frames[m].state \in {"Succeeded", "Failed"}
                /\ results[m] = frames[m].completion.value
    /\ \A k \in 1..Len(fileReads) : fileReads[k].frame = k
    /\ \A k \in 1..Len(gatewayCalls) :
         /\ Len(results) >= gatewayCalls[k].frame - 1
         /\ \A j \in 1..(k - 1) : gatewayCalls[j].frame < gatewayCalls[k].frame

\* C6 witness: the gateway invocation of the second test is in flight, the result of
\* the first has been appended.
C6_Witness ==
    /\ Len(frames) >= 2
    /\ frames[2].state = "Executing"
    /\ Cardinality(InFlight) = 1
    /\ Len(results) = 1

\* C7: when the read succeeds and the gateway returns, runSingleTest returns
\* success = true, the gateway's value unchanged as result and no error field,
\* whatever the value is: an object whose own success field is false, text or null.
C7_SuccessIgnoresResultContent ==
    \A n \in DOMAIN frames :
      \A o \in CallOutcomes(n) :
        o.type = "return" =>
          /\ frames[n].completion.type = "return"
          /\ frames[n].completion.value.success = TRUE
          /\ frames[n].completion.value.result = o.value
          /\ "error" \notin DOMAIN frames[n].completion.value
          /\ Len(results) >= n => results[n] = frames[n].completion.value

\* C7 witness: the gateway returned an object whose success field is false, and in
\* another test null, and both results were returned with success = true.
C7_Witness ==
    \E n, m \in DOMAIN frames :
      /\ Return(ObjectValue(FALSE)) \in CallOutcomes(n)
      /\ Return(NullValue) \in CallOutcomes(m)
      /\ Len(results) >= n /\ Len(results) >= m
      /\ results[n].success = TRUE /\ results[n].result = ObjectValue(FALSE)
      /\ results[m].success = TRUE /\ results[m].result = NullValue

\* buildTestPrompt has been called on its own and has returned
PromptReturned ==
    call.op = "buildTestPrompt" /\ call.returned

\* sub occurs in s as a contiguous run of characters
Contains(s, sub) ==
    \E k \in 0..(Len(s) - Len(sub)) : SubSeq(s, k + 1, k + Len(sub)) = sub

NoOuterWhiteSpace(s) ==
    s # <<>> => (~IsWhiteSpace(s[1]) /\ ~IsWhiteSpace(s[Len(s)]))

\* C8 (as stated): for every test content C, the empty one and those that begin or
\* end with white space included, buildPrompt(C) contains C verbatim and has no
\* leading or trailing white space.
C8_ContainsContentVerbatim ==
    PromptReturned =>
      /\ Contains(call.value, call.arg)
      /\ NoOuterWhiteSpace(call.value)

\* C8 (amended): buildPrompt(C) has no leading or trailing white space and ends with
\* the "Test Steps:" line followed by C without C's trailing white space (followed by
\* nothing when C is white space only); so it contains C verbatim whenever C does not
\* end with white space, leading white space of C included.
C8_ContainsContentUpToTrailingWhiteSpace ==
    PromptReturned =>
      /\ NoOuterWhiteSpace(call.value)
      /\ call.value # <<>>
      /\ EndsWith(call.value, TrimEnd(TemplateLine78 \o call.arg))
      /\ Contains(call.value, TrimEnd(call.arg))
      /\ (call.arg = <<>> \/ ~IsWhiteSpace(call.arg[Len(call.arg)])) =>
           Contains(call.value, call.arg)

\* C8 witness: a content that begins and ends with white space around a letter was
\* built into a prompt.
C8_Witness ==
    /\ PromptReturned
    /\ Len(call.arg) = 3
    /\ IsWhiteSpace(call.arg[1])
    /\ call.arg[2] = "a"
    /\ IsWhiteSpace(call.arg[3])

\* getTestFiles has been called on its own and has returned
FilesReturned ==
    call.op = "getTestFiles" /\ call.returned

\* the names of the listing that end with ".test"
Matching(listing) ==
    {listing[k] : k \in {j \in 1..Len(listing) :
        /\ Len(listing[j]) >= 5
        /\ SubSeq(listing[j], Len(listing[j]) - 4, Len(listing[j]))
             = <<".", "t", "e", "s", "t">>}}

\* the orders in which readdir may hand out the entries of the listing
Reorderings(listing) ==
    {l \in [1..Len(listing) -> {listing[k] : k \in 1..Len(listing)}] :
       \A j, k \in 1..Len(listing) : j # k => l[j] # l[k]}

\* C9: whatever the order readdir returns the entries in, getTestFiles returns exactly
\* the N names that end with ".test", each joined to the tests directory, sorted by
\* file name in the order of their code units; every permutation of the listing gives
\* the same result.
C9_SortedMatchingFiles ==
    FilesReturned =>
      /\ call.value.type = "return"
      /\ LET paths == call.value.value
         IN  /\ Len(paths) = Cardinality(Matching(call.arg))
             /\ {Basename(paths[k]) : k \in 1..Len(paths)} = Matching(call.arg)
             /\ \A k \in 1..Len(paths) :
                  /\ paths[k] = PathJoin(testsDir, Basename(paths[k]))
                  /\ EndsWith(paths[k], <<"/">> \o Basename(paths[k]))
             /\ \A j, k \in 1..Len(paths) :
                  j < k => StringLess(Basename(paths[j]), Basename(paths[k]))
             /\ \A l \in Reorderings(call.arg) :
                  getTestFiles(testsDir, Return(l)) = call.value

\* C9 witness: readdir listed two test files out of order with another file between
\* them, and getTestFiles returned the two in order.
C9_Witness ==
    /\ FilesReturned
    /\ Len(call.arg) = 3
    /\ Cardinality(Matching(call.arg)) = 2
    /\ call.arg[2] \notin Matching(call.arg)
    /\ StringLess(call.arg[3], call.arg[1])
    /\ Len(call.value.value) = 2
    /\ Basename(call.value.value[1]) = call.arg[3]

\* the line after the status line of result k, or no line
LineAfterStatus(out, r) ==
    {out[j + 1] : j \in {x \in 1..(Len(out) - 1) : out[x] = StatusLine(r)}}

\* C10 (as stated): printSummary writes for each failed result its pass/fail line
\* followed by a line carrying that result's error message, and no error line for a
\* result that passed; so every failure produced by runSingleTest is listed with its
\* message.
C10_EveryFailureListedWithMessage ==
    pc = "exit" =>
      \A k \in 1..Len(results) :
        /\ \E j \in 1..Len(summaryOut) : summaryOut[j] = StatusLine(results[k])
        /\ results[k].success = FALSE =>
             ErrorLine(results[k].error) \in LineAfterStatus(summaryOut, results[k])
        /\ results[k].success = TRUE =>
             \A line \in LineAfterStatus(summaryOut, results[k]) :
               SubSeq(line, 1, 9) # ErrorLine(<<>>)

\* printSummary has been called on its own at least once
SummaryPrinted ==
    call.op = "printSummary" /\ call.outputs # <<>>

\* the results of the sequence with the given success flag
WithSuccess(rs, flag) ==
    {k \in 1..Len(rs) : rs[k].success = flag}

\* "\nTotal: <total> | Passed: <passed> | Failed: <failed>"
TallyText(total, passed, failed) ==
    <<"\n", "T", "o", "t", "a", "l", ":", " ">> \o Decimal(total)
      \o <<" ", "|", " ", "P", "a", "s", "s", "e", "d", ":", " ">> \o Decimal(passed)
      \o <<" ", "|", " ", "F", "a", "i", "l", "e", "d", ":", " ">> \o Decimal(failed)

\* C11: for every sequence of TestResults, the empty one included, the tally printed by
\* printSummary has Total = the length of the sequence, Passed = the number of results
\* with success = true, Failed = the number with success = false, and Passed + Failed
\* = Total; for two succeeding tests it reads "Total: 2 | Passed: 2 | Failed: 0".
C11_TallyCounts ==
    SummaryPrinted =>
      LET passed == Cardinality(WithSuccess(call.given, TRUE))
          failed == Cardinality(WithSuccess(call.given, FALSE))
          lines  == call.outputs[1]
      IN  /\ passed + failed = Len(call.given)
          /\ lines[Len(lines)] = TallyText(Len(call.given), passed, failed)
          /\ (Len(call.given) = 2 /\ passed = 2) =>
               lines[Len(lines)] =
                 <<"\n", "T", "o", "t", "a", "l", ":", " ", "2", " ", "|", " ", "P", "a",
                   "s", "s", "e", "d", ":", " ", "2", " ", "|", " ", "F", "a", "i", "l",
                   "e", "d", ":", " ", "0">>
          /\ \A k \in 1..(Len(lines) - 1) :
               SubSeq(lines[k], 1, 8) # SubSeq(TallyText(0, 0, 0), 1, 8)

\* C11 witness: the summary of one passed result, one failed with a message and one
\* failed with an empty message has been printed.
C11_Witness ==
    /\ SummaryPrinted
    /\ Len(call.given) = 3
    /\ Cardinality(WithSuccess(call.given, TRUE)) = 1
    /\ \E k \in 1..3 : call.given[k].success = FALSE /\ call.given[k].error = <<>>
    /\ \E k \in 1..3 : call.given[k].success = FALSE /\ call.given[k].error # <<>>

\* C12 (as stated): a run driven by the process entry point that ends with at least
\* one failed TestResult makes the process exit with a status other than success; the
\* process exits with the success status only when every test passed.
C12_ExitStatusReflectsFailures ==
    exitStatus.ended =>
      /\ (\E k \in 1..Len(results) : results[k].success = FALSE) =>
           exitStatus.code # 0
      /\ exitStatus.code = 0 =>
           \A k \in 1..Len(results) : results[k].success = TRUE

TestStep(from, to) ==
    \/ from = "Pending" /\ to = "Reading"
    \/ from = "Reading" /\ to \in {"Prompting", "Failed"}
    \/ from = "Prompting" /\ to = "Executing"
    \/ from = "Executing" /\ to \in {"Succeeded", "Failed"}

\* C14: each test moves through Pending, Reading, Prompting, Executing and ends in
\* exactly one of Succeeded and Failed, only in that forward order: Failed is entered
\* from Reading or Executing, Succeeded from Executing only, no state is entered twice
\* and no step leaves a terminal state (no retry).
C14_TestStateMachine ==
    /\ [][/\ frames = <<>> =>
               \A n \in DOMAIN frames' : frames'[n].state = "Pending"
          /\ frames # <<>> =>
               /\ DOMAIN frames' = DOMAIN frames
               /\ \A n \in DOMAIN frames :
                    \/ frames'[n].state = frames[n].state
                    \/ TestStep(frames[n].state, frames'[n].state)]_vars
    /\ [](\A n \in DOMAIN frames :
            /\ frames[n].state \in
                 {"Pending", "Reading", "Prompting", "Executing", "Succeeded", "Failed"}
            /\ frames[n].state \in {"Succeeded", "Failed"} <=>
                 frames[n].completion # NoCompletion
            /\ frames[n].state = "Succeeded" => (ReadReturned(n) /\ CallReturned(n))
            /\ frames[n].state = "Failed" => (ReadThrew(n) \/ CallThrew(n)))

\* C14 witness: one test has failed in Executing and the next one has succeeded.
C14_Witness ==
    /\ Len(frames) = 2
    /\ frames[1].state = "Failed" /\ CallThrew(1)
    /\ frames[2].state = "Succeeded"

\* the gateway invocations made for activation n
CallsOf(n) ==
    {k \in 1..Len(gatewayCalls) : gatewayCalls[k].frame = n}

\* the content the read of activation n returned
ContentRead(n) ==
    (CHOOSE o \in ReadOutcomes(n) : o.type = "return").value

\* C15: in a run over K listed files the gateway is invoked at most once per file and at
\* most K times in all: never for a file whose read failed, and, once the run has
\* returned, exactly once for each file whose read succeeded, with the prompt built
\* from that file's content; a failed gateway call is not repeated.
C15_GatewayCalledOncePerReadFile ==
    /\ Len(gatewayCalls) <= Len(testFiles)
    /\ \A k \in 1..Len(gatewayCalls) : gatewayCalls[k].frame \in DOMAIN frames
    /\ \A n \in DOMAIN frames :
         /\ Cardinality(CallsOf(n)) <= 1
         /\ ReadThrew(n) => CallsOf(n) = {}
         /\ CallsOf(n) # {} => ReadReturned(n)
         /\ CallThrew(n) => (Cardinality(CallsOf(n)) = 1 /\ frames[n].state = "Failed")
         /\ \A k \in CallsOf(n) :
              /\ EndsWith(gatewayCalls[k].prompt, TrimEnd(TemplateLine78 \o ContentRead(n)))
              /\ \E now \in 0..MaxTick :
                   gatewayCalls[k].prompt
                     = Trim(TemplateText(toISOString(now), ContentRead(n)))
         /\ (RunReturned /\ ReadReturned(n)) => Cardinality(CallsOf(n)) = 1

\* C15 witness: a run over two files has returned; the read of the first failed and the
\* gateway was invoked once, for the second, whose call failed.
C15_Witness ==
    /\ RunReturned
    /\ Len(testFiles) = 2
    /\ ReadThrew(1)
    /\ ReadReturned(2) /\ ContentRead(2) # <<>>
    /\ CallThrew(2)
    /\ Len(gatewayCalls) = 1

\* the two shapes of a TestResult that runSingleTest returns for activation n
SuccessShape(r, n) ==
    /\ DOMAIN r = {"testFile", "testNumber", "prompt", "result", "success"}
    /\ r.success = TRUE
    /\ ReadReturned(n)
    /\ r.prompt = ContentRead(n)
    /\ \A k \in CallsOf(n) : r.prompt # gatewayCalls[k].prompt

FailureShape(r) ==
    /\ DOMAIN r = {"testFile", "testNumber", "prompt", "result", "success", "error"}
    /\ r.success = FALSE
    /\ r.result = NullValue
    /\ r.prompt = <<>>

\* C16: every TestResult returned by runSingleTest has one of two shapes: success = true
\* with no error field and the prompt field equal to the raw content read from the file
\* (not the prompt sent to the gateway); or success = false with result = null, the
\* error field present and the prompt field empty, also when the failure happened at
\* the gateway after the content had been read.
C16_TwoResultShapes ==
    /\ \A n \in DOMAIN frames :
         frames[n].completion # NoCompletion =>
           /\ frames[n].completion.type = "return"
           /\ LET r == frames[n].completion.value
              IN  /\ SuccessShape(r, n) \/ FailureShape(r)
                  /\ CallReturned(n) => SuccessShape(r, n)
                  /\ (CallThrew(n) \/ ReadThrew(n)) => FailureShape(r)
    /\ \A k \in 1..Len(results) : results[k] = frames[k].completion.value

\* C16 witness: one result was returned with the non-empty content read as its prompt,
\* another with an empty prompt after the gateway failed on a non-empty content.
C16_Witness ==
    \E n, m \in DOMAIN frames :
      /\ Len(results) >= n /\ Len(results) >= m
      /\ results[n].success = TRUE /\ results[n].prompt # <<>>
      /\ CallThrew(m) /\ ContentRead(m) # <<>>
      /\ results[m].success = FALSE /\ results[m].prompt = <<>>

\* the activations that have completed
Completed ==
    {n \in DOMAIN frames : frames[n].completion # NoCompletion}

\* C17: during runAllTests the result list is append-only: a step leaves it as it is or
\* appends one result, that of the test that has just completed, so the list is at every
\* step a prefix of what it is later and of the sequence finally returned; its length
\* never decreases and an appended result is never modified, reordered or removed.
C17_ResultsAppendOnly ==
    /\ [][/\ Len(results') \in {Len(results), Len(results) + 1}
          /\ SubSeq(results', 1, Len(results)) = results
          /\ Len(results') = Len(results) + 1 =>
               /\ Len(results') \in Completed
               /\ results'[Len(results')] = frames[Len(results')].completion.value]_vars
    /\ [](/\ Len(results) <= Cardinality(Completed)
          /\ Cardinality(Completed) <= Len(results) + 1
          /\ pc \in {"loop", "printSummary", "exit"} =>
               Len(results) = Cardinality(Completed))

\* C17 witness: two different results have been appended, one after the other.
C17_Witness ==
    /\ Len(results) = 2
    /\ results[1].testNumber = 1
    /\ results[2].testNumber = 2
    /\ results[1].success # results[2].success

\* C18: if the listing returns and every read and every gateway invocation settles in
\* the end, runAllTests terminates and returns its K results.  No timeout is enforced:
\* while a gateway invocation is pending the program has no step to take, the run stays
\* at that test and no later test has been started.
C18_TerminatesUnlessGatewayHangs ==
    /\ (pc = "loop") ~> (RunReturned /\ Len(results) = Len(testFiles))
    /\ [](\A n \in DOMAIN frames :
            frames[n].state = "Executing" =>
              /\ ~ENABLED ProgramSteps
              /\ pc = "await" /\ i = n - 1 /\ Len(results) = n - 1
              /\ \A m \in DOMAIN frames : m > n => frames[m].state = "Pending")

\* C18 witness: a run over two files has returned its two results, the gateway having
\* been invoked for both.
C18_Witness ==
    /\ RunReturned
    /\ Len(testFiles) = 2
    /\ Len(results) = 2
    /\ Len(gatewayCalls) = 2

====
